---------------------------- MODULE Spec2Model ----------------------------
(***************************************************************************)
(* m.swim.substats: subbasin statistics of the SWIM preprocessor.          *)
(*                                                                         *)
(* One run of the module is modelled as a sequential state machine:        *)
(* main.__init__ (three steps), main.subbasinStats (areaFractions, then    *)
(* one step per order-list entry, each a call of main.getParam plus the    *)
(* length check), main.write_csv_output and the clean-up of __main__.      *)
(* GRASS is the environment: what its commands return (the categories of   *)
(* the rasterized subbasins, the rows of the attribute table, the values   *)
(* sampled from rasters, the region resolution) is fixed by the initial    *)
(* state, and every command issued is appended to `calls`.                 *)
(*                                                                         *)
(* Text values (option values, layer and column names) are sequences of    *)
(* characters, so that float() and split('@') are computed on them; a name *)
(* the program spells out and never looks into is one element (Lit).       *)
(* Numbers are integers in hundredths (ParseFloat; lengths are hundredths  *)
(* of a km) and NaN is the integer NaN below.                              *)
(***************************************************************************)
EXTENDS Integers, Sequences, FiniteSets, TLC

----------------------------------------------------------------------------
(* Bounds of the model *)

\* unit categories of the rasterized subbasins and table rows are 1..MaxId
MaxId == 2
\* raw channel lengths are NaN or 0..MaxLen, perimeters are 1..MaxLen
\* (hundredths of a km)
MaxLen == 2
\* the region's east-west resolution is 10, 20, .. 10 * MaxRes metres
MaxRes == 2
\* where the area fractions are looked at, the categories are 1..MaxUnits
MaxUnits == 3
\* and every category has 10, 20, .. 10 * MaxCells cells
MaxCells == 3
\* where the channel width and depth are looked at, the drainage area of a
\* subbasin is the fifth power of 0, r, 2r .. MaxRoot * r km2 for an
\* accumulation raster of r km resolution
MaxRoot == 10

\* not-a-number (numpy nan); every other value of the model is >= 0
NaN == -1

----------------------------------------------------------------------------
(* Text *)

Digits == {"0", "1", "2", "3", "4", "5", "6", "7", "8", "9"}

DigitVal(c) ==
  CASE c = "0" -> 0 [] c = "1" -> 1 [] c = "2" -> 2 [] c = "3" -> 3
    [] c = "4" -> 4 [] c = "5" -> 5 [] c = "6" -> 6 [] c = "7" -> 7
    [] c = "8" -> 8 [] c = "9" -> 9

\* index of the first occurrence of c in s, Len(s)+1 when there is none
RECURSIVE IndexOf(_, _, _)
IndexOf(s, c, i) ==
  IF i > Len(s) THEN i
  ELSE IF s[i] = c THEN i ELSE IndexOf(s, c, i + 1)

\* s.split('@')[0]
BaseName(s) == SubSeq(s, 1, IndexOf(s, "@", 1) - 1)

\* the decimal value of a sequence of digits
RECURSIVE DigitsVal(_)
DigitsVal(s) ==
  IF s = <<>> THEN 0
  ELSE 10 * DigitsVal(SubSeq(s, 1, Len(s) - 1)) + DigitVal(s[Len(s)])

AllDigits(s) == \A i \in 1..Len(s) : s[i] \in Digits

StrNan == <<"n", "a", "n">>

\* float(s) succeeds: digits, optionally a point and one or two more digits
\* (the model's numbers are hundredths), or 'nan'.  Every other text of the
\* model's inputs makes float() raise ValueError.
IsFloat(s) ==
  \/ s = StrNan
  \/ LET dot == IndexOf(s, ".", 1)
         int == SubSeq(s, 1, dot - 1)
         frac == SubSeq(s, dot + 1, Len(s))
     IN /\ AllDigits(int) /\ AllDigits(frac)
        /\ Len(int) + Len(frac) > 0
        /\ Len(frac) <= 2

\* float(s) in hundredths, for a text float() accepts
ParseFloat(s) ==
  IF s = StrNan THEN NaN
  ELSE LET dot == IndexOf(s, ".", 1)
           int == SubSeq(s, 1, dot - 1)
           frac == SubSeq(s, dot + 1, Len(s))
       IN 100 * DigitsVal(int)
          + (IF Len(frac) = 1 THEN 10 * DigitsVal(frac) ELSE DigitsVal(frac))


----------------------------------------------------------------------------
(* State *)

VARIABLES
  options,     \* optionsandflags: option key -> text, <<>> when left empty
  orders,      \* the suborder, gworder and rteorder options, split at ','
  k,           \* flag k: keep the working layers
  unitIDs,     \* GRASS: categories of the rasterized subbasins
  cells,       \* GRASS: cells of each category (r.stats -cn)
  tableIDs,    \* GRASS: subbasinID of the rows of the subbasins table
  rasters,     \* GRASS: the raster layers grass.find_file finds
  sampled,     \* GRASS: raster -> value at the centroid of each subbasin
  perim,       \* GRASS: perimeter of each subbasin (v.to.db)
  ewres,       \* GRASS: east-west resolution of the region, in metres
  accum,       \* GRASS: largest flow accumulation within each subbasin
  accres,      \* GRASS: east-west resolution of the accumulation raster, m
  pc,          \* where the run is
  error,       \* the error the run ended with
  calls,       \* the GRASS commands issued so far
  mask,        \* an r.mask is set
  table,       \* columns added to the subbasins table: column -> ID -> value
  nsubbasins,  \* self.nsubbasins
  params,      \* the params dictionary of subbasinStats
  pos,         \* position of subbasinStats' loops in the order lists
  par,         \* what the last call of getParam returned
  report,      \* the statistics getParam reported last
  invoked,     \* the calls of areaFractions, getParam and
               \* write_csv_output so far
  output       \* what write_csv_output handed to the csv writer

config == <<options, orders, k>>
world == <<unitIDs, cells, tableIDs, rasters, sampled, perim, ewres, accum,
          accres>>
run == <<pc, error, calls, mask, table, nsubbasins, params, pos, par,
         report, invoked, output>>
vars == <<config, world, run>>

----------------------------------------------------------------------------
(* Names *)

\* a name the program spells out
Lit(name) == <<name>>

\* self.functions
functions == {"chl", "chs", "chw", "chd", "lat"}

\* self.functionsrasts
functionsrasts == <<"elevation", "drainage", "accumulation", "mainstreams">>

\* the option keys of the model; every other name is never in self.options
OptionKeys == {"elevation", "drainage", "accumulation", "mainstreams",
               "chl", "chs", "chw", "chd", "gwq"}

\* p in self.options: only the non-empty options are kept
InOptions(p) == p \in OptionKeys /\ options[p] # <<>>

\* the keys of self.orders, in the order of the dictionary
Groups == <<"subbasin", "groundwater", "routing">>

\* sorted(self.orders)[::-1]
GroupsWritten == <<"subbasin", "routing", "groundwater">>

subbasinrast == Lit("subbasin__rast")

----------------------------------------------------------------------------
(* Errors *)

Err(kind, param, group, layer, actual, expected) ==
  [kind |-> kind, param |-> param, group |-> group, layer |-> layer,
   actual |-> actual, expected |-> expected]

NoError == Err("none", "", "", <<>>, 0, 0)

\* an exception nobody catches
Raised(kind, param) == Err(kind, param, "", <<>>, 0, 0)

\* grass.fatal of line 490
ToCalculate(p) == Err("ToCalculate", p, "", <<>>, 0, 0)

\* grass.fatal of line 493
NotSure(p, f) == Err("NotSure", p, f, <<>>, 0, 0)

\* grass.fatal of lines 508, 512, 514, 516
Missing(raster) == Err("Missing", raster, "", <<>>, 0, 0)

\* grass.fatal of line 563
NotFound(layer) == Err("NotFound", "", "", layer, 0, 0)

\* grass.fatal of line 544
WrongLength(p, actual, expected) ==
  Err("WrongLength", p, "", <<>>, actual, expected)

Call(cmd, map) == [cmd |-> cmd, map |-> map]

\* a call of a method of main with its argument
Invocation(method, param) == [method |-> method, param |-> param]


----------------------------------------------------------------------------
(* Arrays *)

\* the elements of a set of numbers in ascending order
RECURSIVE SortedIDs(_)
SortedIDs(S) ==
  IF S = {} THEN <<>>
  ELSE LET m == CHOOSE x \in S : \A y \in S : x <= y
       IN <<m>> \o SortedIDs(S \ {m})

\* np.ones(n) * v
Broadcast(v, n) == [i \in 1..n |-> v]

\* a > b of two floats: False when either is nan
Greater(a, b) == a # NaN /\ b # NaN /\ a > b

RECURSIVE SeqSum(_)
SeqSum(s) == IF s = <<>> THEN 0 ELSE s[1] + SeqSum(Tail(s))

SeqMin(s) == CHOOSE x \in {s[i] : i \in 1..Len(s)} :
               \A i \in 1..Len(s) : x <= s[i]

SeqMax(s) == CHOOSE x \in {s[i] : i \in 1..Len(s)} :
               \A i \in 1..Len(s) : x >= s[i]

\* stats[nn]: the entries that are not nan
Finite(s) == SelectSeq(s, LAMBDA x : x # NaN)

\* getTable(self.subbasins, columns='subbasinID,<column>')[column]: one entry
\* for each row of the table
getTable(tbl, column) ==
  LET ids == SortedIDs(tableIDs)
  IN [i \in 1..Len(ids) |-> tbl[column][ids[i]]]

\* the table with a column set to vals (ID -> value)
WithColumn(tbl, column, vals) ==
  [c \in DOMAIN tbl \cup {column} |-> IF c = column THEN vals ELSE tbl[c]]

----------------------------------------------------------------------------
(* main.__init__ *)

\* Offence without the grass.fatal of line 493
OffenceLenient(f, p) ==
  IF p = "flu" THEN NoError
  ELSE IF InOptions(p) THEN NoError
  ELSE IF p \in functions
          /\ \E i \in 1..Len(functionsrasts) : ~InOptions(functionsrasts[i])
       THEN ToCalculate(p)
       ELSE NoError

\* lines 483-493 for the entry p of the order list of group f
Offence(f, p) ==
  IF p = "flu" THEN NoError
  ELSE IF InOptions(p) THEN NoError
  ELSE IF p \in functions
       THEN IF \E i \in 1..Len(functionsrasts) : ~InOptions(functionsrasts[i])
            THEN ToCalculate(p)
            ELSE NoError
       ELSE NotSure(p, f)

\* the entries of the three order lists in the order the loops of lines
\* 478 and 483 visit them
Entries ==
  LET of(f) == [i \in 1..Len(orders[f]) |-> <<f, orders[f][i]>>]
  IN of(Groups[1]) \o of(Groups[2]) \o of(Groups[3])

\* the first grass.fatal of the loops of lines 478-493
RECURSIVE FirstOffence(_)
FirstOffence(es) ==
  IF es = <<>> THEN NoError
  ELSE LET e == Offence(es[1][1], es[1][2])
       IN IF e # NoError THEN e ELSE FirstOffence(Tail(es))

\* the option that holds the order list of a group
OrderOption(f) ==
  CASE f = "subbasin" -> "suborder"
    [] f = "groundwater" -> "gworder"
    [] f = "routing" -> "rteorder"

\* lines 457-493: self.suborder, self.gworder and self.rteorder exist only
\* when the option is not empty, then every entry is checked
CheckOrders ==
  /\ pc = "start"
  /\ LET blank == {i \in 1..3 : orders[Groups[i]] = <<>>}
         first == CHOOSE i \in blank : \A j \in blank : i <= j
         e == IF blank # {}
              THEN Raised("AttributeError", OrderOption(Groups[first]))
              ELSE FirstOffence(Entries)
     IN /\ error' = e
        /\ pc' = IF e # NoError THEN "aborted" ELSE "rasterize"
  /\ UNCHANGED <<config, world, calls, mask, table, nsubbasins, params, pos,
                 par, report, invoked, output>>

\* lines 496-502: v.to.rast and r.mask
Rasterize ==
  /\ pc = "rasterize"
  /\ calls' = calls \o <<Call("v.to.rast", subbasinrast),
                         Call("r.mask", subbasinrast)>>
  /\ mask' = TRUE
  /\ pc' = "prerequisites"
  /\ UNCHANGED <<config, world, error, table, nsubbasins, params, pos, par,
                 report, invoked, output>>

\* '%s__rast' % self.mainstreams.split('@')[0]
streamrast == BaseName(options["mainstreams"]) \o Lit("__rast")

\* the GRASS commands of makeMainStreamRast
makeMainStreamRast ==
  <<Call("v.to.rast", streamrast \o Lit("__1")),
    Call("r.mapcalc", streamrast),
    Call("r.stats", subbasinrast),
    Call("r.stats", streamrast)>>

\* the grass.fatal of lines 504-516, NoError when none is raised
Prerequisites ==
  IF (~InOptions("chw") \/ ~InOptions("chd")) /\ ~InOptions("accumulation")
  THEN Missing("accumulation")
  ELSE IF ~InOptions("chl") \/ ~InOptions("chs")
       THEN IF ~InOptions("mainstreams") THEN Missing("mainstreams")
            ELSE IF ~InOptions("chl") /\ ~InOptions("drainage")
                 THEN Missing("drainage")
            ELSE IF ~InOptions("chs") /\ ~InOptions("elevation")
                 THEN Missing("elevation")
            ELSE NoError
       ELSE NoError

\* lines 504-523
CheckPrerequisites ==
  /\ pc = "prerequisites"
  /\ error' = Prerequisites
  /\ pc' = IF Prerequisites # NoError THEN "aborted" ELSE "stats"
  /\ calls' = IF Prerequisites = NoError
                 /\ (~InOptions("chl") \/ ~InOptions("chs"))
              THEN calls \o makeMainStreamRast
              ELSE calls
  /\ UNCHANGED <<config, world, mask, table, nsubbasins, params, pos, par,
                 report, invoked, output>>


----------------------------------------------------------------------------
(* The computation functions: the commands they issue, the raster they name *)

\* meanSubbasin: the name of the zonal raster, '%s__%s__%s'
meanName(raster) ==
  BaseName(subbasinrast) \o Lit("__") \o BaseName(raster) \o Lit("__")
    \o Lit("average")

\* meanSubbasin: r.stats.zonal of raster over the subbasins
meanSubbasin(raster) ==
  [calls |-> <<Call("r.stats.zonal", meanName(raster))>>,
   raster |-> meanName(raster)]

\* the default of maxwidth, metres
maxwidth == 3000

\* the default of maxdepth, metres
maxdepth == 50

\* the smaller of two numbers
Min(a, b) == IF a <= b THEN a ELSE b

\* the largest r at or above from with r^5 <= x
RECURSIVE Root5(_, _)
Root5(x, from) == IF (from + 1) ^ 5 > x THEN from ELSE Root5(x, from + 1)

\* x^0.6 and x^0.4 of r.mapcalc, exact where x is a fifth power
Pow06(x) == Root5(x, 0) ^ 3
Pow04(x) == Root5(x, 0) ^ 2

\* max__accum * (res^2)/1000000: the drainage area in km2; the product is
\* taken in two parts to stay within the integers of the model
DrainageArea(max_accum, r) ==
  max_accum * ((r ^ 2) \div 1000000)
    + (max_accum * ((r ^ 2) % 1000000)) \div 1000000

\* WidthExpression without the limit
WidthExpressionUnlimited(max_accum, r) ==
  IF max_accum = NaN THEN NaN
  ELSE 129 * Pow06(DrainageArea(max_accum, r))

\* the expression of line 766 in hundredths of a metre, null for a subbasin
\* without accumulation
WidthExpression(max_accum, r) ==
  IF max_accum = NaN THEN NaN
  ELSE Min(129 * Pow06(DrainageArea(max_accum, r)), 100 * maxwidth)

\* the expression of line 784 in hundredths of a metre
DepthExpression(max_accum, r) ==
  IF max_accum = NaN THEN NaN
  ELSE Min(13 * Pow04(DrainageArea(max_accum, r)), 100 * maxdepth)

\* the value of a raster at the centroid of a subbasin: the rasters
\* channelWidth and channelDepth hold what r.mapcalc made of max__accum
RasterValue(raster, id) ==
  IF raster = Lit("channelWidth") THEN WidthExpression(accum[id], accres)
  ELSE IF raster = Lit("channelDepth") THEN DepthExpression(accum[id], accres)
  ELSE sampled[raster][id]

\* upload2Subbasins: v.db.addcolumn, v.what.rast at the centroids, and the
\* column read back with getTable
upload2Subbasins(tbl, raster, column) ==
  LET new == WithColumn(tbl, column,
               [id \in tableIDs |-> RasterValue(raster, id)])
  IN [calls |-> <<Call("v.db.addcolumn", column),
                  Call("v.what.rast", column)>>,
      table |-> new,
      stats |-> getTable(new, column)]

mainChannelLength ==
  [calls |-> <<Call("r.mapcalc", Lit("drainage__abs")),
               Call("r.info", streamrast),
               Call("r.mapcalc", Lit("cell__len")),
               Call("r.stats.zonal", Lit("cell__len__mainstreams__m")),
               Call("r.mapcalc", Lit("cell__len__mainstreams"))>>
             \o meanSubbasin(Lit("cell__len__mainstreams")).calls
             \o <<Call("g.rename", Lit("mainChannelLength"))>>,
   raster |-> Lit("mainChannelLength")]

mainChannelSlope ==
  LET sloperast == BaseName(options["elevation"]) \o Lit("__slope")
  IN [calls |-> <<Call("r.slope.aspect", sloperast),
                  Call("r.stats.zonal", sloperast \o Lit("__mainstreams")),
                  Call("r.mapcalc", Lit("mainstream__slope__tan"))>>
                \o meanSubbasin(Lit("mainstream__slope__tan")).calls
                \o <<Call("r.mapcalc", Lit("mainChannelSlope"))>>,
      raster |-> Lit("mainChannelSlope")]

channelWidth ==
  [calls |-> <<Call("r.stats.zonal", Lit("max__accum")),
               Call("r.info", options["accumulation"]),
               Call("r.mapcalc", Lit("channelWidth"))>>,
   raster |-> Lit("channelWidth")]

channelDepth ==
  [calls |-> <<Call("r.stats.zonal", Lit("max__accum")),
               Call("r.info", options["accumulation"]),
               Call("r.mapcalc", Lit("channelDepth"))>>,
   raster |-> Lit("channelDepth")]

centroids == Lit("subbasin__centroids")

\* centroid_latitude: one latitude for each centroid v.report lists
centroid_latitude ==
  [calls |-> <<Call("v.extract", centroids),
               Call("g.mapset", Lit("lonlat")),
               Call("v.proj", centroids),
               Call("v.report", centroids),
               Call("g.mapset", Lit("MAPSET"))>>,
   stats |-> LET ids == SortedIDs(tableIDs)
             IN [i \in 1..Len(ids) |-> sampled[centroids][ids[i]]]]

\* self.functions[param]()
Function(param) ==
  CASE param = "chl" -> mainChannelLength
    [] param = "chs" -> mainChannelSlope
    [] param = "chw" -> channelWidth
    [] param = "chd" -> channelDepth

----------------------------------------------------------------------------
(* main.correctChannelLength *)

\* self.chl as mainChannelLength sets it
chlColumn == Lit("mainChannelLength")

\* grass.region()['ewres']*1e-3 of line 703: metres to km, in hundredths
res == (ewres * 100) \div 1000

\* CorrectedLength with the update of line 715 writing the resolution
CorrectedLengthToRes(raw, perimeter) ==
  IF raw = NaN THEN res
  ELSE IF Greater(raw, perimeter) THEN res
  ELSE raw

\* the channel length of one subbasin after lines 699-716: nan becomes the
\* resolution, a length above the perimeter becomes the perimeter
CorrectedLength(raw, perimeter) ==
  IF raw = NaN THEN res
  ELSE IF Greater(raw, perimeter) THEN perimeter
  ELSE raw

correctChannelLength(tbl) ==
  LET raw == tbl[chlColumn]
      nolength == {id \in tableIDs : raw[id] = NaN}
      toolong == {id \in tableIDs : Greater(raw[id], perim[id])}
      new == WithColumn(tbl, chlColumn,
               [id \in tableIDs |-> CorrectedLength(raw[id], perim[id])])
  IN [calls |-> <<Call("v.to.db", Lit("perim__"))>>
                \o (IF nolength # {}
                    THEN <<Call("v.db.update", chlColumn)>> ELSE <<>>)
                \o (IF toolong # {}
                    THEN <<Call("v.db.update", chlColumn)>> ELSE <<>>)
                \o <<Call("v.db.dropcolumn", Lit("perim__"))>>
                \o (IF nolength # {} \/ toolong # {}
                    THEN <<Call("v.to.rast", chlColumn)>> ELSE <<>>),
      table |-> new,
      stats |-> getTable(new, chlColumn)]

----------------------------------------------------------------------------
(* main.getParam *)

NoReport == [param |-> "", min |-> 0, max |-> 0, sum |-> 0, n |-> 0, nnans |-> 0]

\* lines 577-583: min, mean (as sum and count) and max of the entries that
\* are not nan, and the number of nans
Statistics(param, stats) ==
  LET nn == Finite(stats)
  IN [param |-> param, min |-> SeqMin(nn), max |-> SeqMax(nn),
      sum |-> SeqSum(nn), n |-> Len(nn), nnans |-> Len(stats) - Len(nn)]

\* Given with the computation function tried first
GivenUnlessComputed(param) == InOptions(param) /\ param \notin functions

\* line 556
Given(param) == InOptions(param)

\* lines 556-576: the array of param, the commands issued and the table
\* after them; error is NotFound when the layer named does not exist
Resolve(param, tbl) ==
  IF Given(param)
  THEN IF IsFloat(options[param])
       THEN [error |-> NoError, calls |-> <<>>, table |-> tbl,
             stats |-> Broadcast(ParseFloat(options[param]), nsubbasins)]
       ELSE IF options[param] \notin rasters
            THEN [error |-> NotFound(options[param]), calls |-> <<>>,
                  table |-> tbl, stats |-> <<>>]
            ELSE LET mean == meanSubbasin(options[param])
                     up == upload2Subbasins(tbl, mean.raster,
                                            BaseName(options[param]))
                 IN [error |-> NoError, calls |-> mean.calls \o up.calls,
                     table |-> up.table, stats |-> up.stats]
  ELSE IF param = "lat"
       THEN [error |-> NoError, calls |-> centroid_latitude.calls,
             table |-> tbl, stats |-> centroid_latitude.stats]
       ELSE LET f == Function(param)
                up == upload2Subbasins(tbl, f.raster, f.raster)
                cor == correctChannelLength(up.table)
            IN IF param = "chl"
               THEN [error |-> NoError,
                     calls |-> f.calls \o up.calls \o cor.calls,
                     table |-> cor.table, stats |-> cor.stats]
               ELSE [error |-> NoError, calls |-> f.calls \o up.calls,
                     table |-> up.table, stats |-> up.stats]

\* getParam: Resolve, then the statistics report; np.min of no entries
\* raises ValueError
getParam(param, tbl) ==
  LET r == Resolve(param, tbl)
  IN IF r.error # NoError THEN r @@ [report |-> NoReport]
     ELSE IF Finite(r.stats) = <<>>
          THEN [r EXCEPT !.error = Raised("ValueError", param)]
                 @@ [report |-> NoReport]
          ELSE r @@ [report |-> Statistics(param, r.stats)]


----------------------------------------------------------------------------
(* main.subbasinStats *)

\* the entries the loops of lines 537-538 visit, in their order
Todo == orders[Groups[1]] \o orders[Groups[2]] \o orders[Groups[3]]

\* areaFractions dividing by the largest count
areaFractionsOfLargest ==
  LET ids == SortedIDs(unitIDs)
      counts == [i \in 1..Len(ids) |-> cells[ids[i]]]
  IN [i \in 1..Len(ids) |-> <<counts[i], SeqMax(counts)>>]

\* np.float64(subbcells['value'])/np.sum(subbcells['value']): each fraction
\* as <<cells of the subbasin, cells of all subbasins>>, by ascending category
areaFractions ==
  LET ids == SortedIDs(unitIDs)
      counts == [i \in 1..Len(ids) |-> cells[ids[i]]]
  IN [i \in 1..Len(ids) |-> <<counts[i], SeqSum(counts)>>]

\* lines 532-536; v.min() of no subbasin raises ValueError
AreaFractions ==
  /\ pc = "stats"
  /\ calls' = calls \o <<Call("r.stats", subbasinrast)>>
  /\ invoked' = Append(invoked, Invocation("areaFractions", ""))
  /\ IF unitIDs = {}
     THEN /\ error' = Raised("ValueError", "flu")
          /\ pc' = "aborted"
          /\ UNCHANGED <<nsubbasins, params, pos>>
     ELSE /\ nsubbasins' = Len(areaFractions)
          /\ params' = [p \in {"flu"} |-> areaFractions]
          /\ pos' = 1
          /\ pc' = "resolve"
          /\ UNCHANGED error
  /\ UNCHANGED <<config, world, mask, table, par, report, output>>

NoPar == [name |-> "", value |-> <<>>]

\* LengthMismatch refusing only an array that is too short
LengthMismatchShort(stats) == Len(stats) < nsubbasins

\* LengthMismatch with the check of line 543 left out
LengthMismatchNever(stats) == FALSE

\* line 543
LengthMismatch(stats) == Len(stats) # nsubbasins

\* Cached with only the seeded entry looked up
CachedOnlyFlu(p) == p = "flu"

\* line 540
Cached(p) == p \in DOMAIN params

\* lines 538-547 for one entry of an order list
ResolveNext ==
  /\ pc = "resolve"
  /\ LET p == Todo[pos]
         g == getParam(p, table)
         after == IF pos + 1 > Len(Todo) THEN "write" ELSE "resolve"
     IN IF Cached(p)
        THEN /\ pos' = pos + 1
             /\ pc' = after
             /\ UNCHANGED <<error, calls, table, params, par, report, invoked>>
        ELSE /\ invoked' = Append(invoked, Invocation("getParam", p))
             /\ calls' = calls \o g.calls
             /\ table' = g.table
             /\ IF g.error # NoError
                THEN /\ error' = g.error
                     /\ pc' = "aborted"
                     /\ UNCHANGED <<params, pos, par, report>>
                ELSE /\ par' = [name |-> p, value |-> g.stats]
                     /\ report' = g.report
                     /\ IF LengthMismatch(g.stats)
                        THEN /\ error' = WrongLength(p, Len(g.stats), nsubbasins)
                             /\ pc' = "aborted"
                             /\ UNCHANGED <<params, pos>>
                        ELSE /\ params' = [q \in DOMAIN params \cup {p} |->
                                            IF q = p THEN g.stats ELSE params[q]]
                             /\ pos' = pos + 1
                             /\ pc' = after
                             /\ UNCHANGED error
  /\ UNCHANGED <<config, world, mask, nsubbasins, output>>

----------------------------------------------------------------------------
(* main.write_csv_output and the end of the run *)

\* [s for p in sorted(self.orders)[::-1] for s in self.orders[p]]
cols ==
  orders[GroupsWritten[1]] \o orders[GroupsWritten[2]]
    \o orders[GroupsWritten[3]]

\* np.arange(1, self.nsubbasins+1)
arange == [i \in 1..nsubbasins |-> i]

NoOutput == [header |-> <<>>, columns |-> <<>>]

\* lines 793-797: the header and the columns handed to the csv writer
WriteCsv ==
  /\ pc = "write"
  /\ output' = [header |-> <<"subbasin_id">> \o cols,
                columns |-> <<arange>> \o [i \in 1..Len(cols) |-> params[cols[i]]]]
  /\ invoked' = Append(invoked, Invocation("write_csv_output", ""))
  /\ pc' = "clean"
  /\ UNCHANGED <<config, world, error, calls, mask, table, nsubbasins,
                 params, pos, par, report>>

\* lines 869-872: r.mask -r, and g.remove of '*__*' unless flag k is set
Clean ==
  /\ pc = "clean"
  /\ calls' = calls \o <<Call("r.mask -r", <<>>)>>
                    \o (IF ~k THEN <<Call("g.remove", Lit("*__*"))>> ELSE <<>>)
  /\ mask' = FALSE
  /\ pc' = "done"
  /\ UNCHANGED <<config, world, error, table, nsubbasins, params, pos, par,
                 report, invoked, output>>


----------------------------------------------------------------------------
(* The inputs of a run *)

Num2 == <<"2">>
Num015 == <<"0", ".", "1", "5">>
LaySl == <<"s", "l">>
LaySlP == <<"s", "l", "@", "P">>
LayDem == <<"d", "e", "m">>

\* the rasters v.what.rast samples and the centroids v.report lists
SampledRasters ==
  {meanName(LaySl), meanName(LayDem), Lit("mainChannelLength"),
   Lit("mainChannelSlope"), centroids}

IDs == 1..MaxId

\* values of a raster at the centroids
Values(S) == [IDs -> S]

\* the options: the rasters of the set given are named, the others empty
Opts(given, chl, chs, chw, chd, gwq) ==
  [key \in OptionKeys |->
     CASE key = "chl" -> chl [] key = "chs" -> chs [] key = "chw" -> chw
       [] key = "chd" -> chd [] key = "gwq" -> gwq
       [] OTHER -> IF key \in given THEN Lit(key) ELSE <<>>]

AllRasters == {functionsrasts[i] : i \in 1..Len(functionsrasts)}

Orders(sub, gw, rte) == [subbasin |-> sub, groundwater |-> gw, routing |-> rte]

\* the state main.__init__ starts in
RunInit ==
  /\ pc = "start" /\ error = NoError /\ calls = <<>> /\ mask = FALSE
  /\ table = <<>> /\ nsubbasins = 0 /\ params = <<>> /\ pos = 0
  /\ par = NoPar /\ report = NoReport /\ invoked = <<>> /\ output = NoOutput

\* an accumulation raster of 1 km resolution whose largest value is 1 in
\* every subbasin
PlainAccumulation == accum = [id \in IDs |-> 1] /\ accres = 1000

\* n subbasins with categories 1..n, a table row for each, every sampled
\* value 1
PlainWorld(n) ==
  /\ unitIDs = 1..n /\ tableIDs = 1..n
  /\ cells = [id \in IDs |-> id]
  /\ rasters = {LaySl, LaySlP}
  /\ sampled = [r \in SampledRasters |-> [id \in IDs |-> 1]]
  /\ perim = [id \in IDs |-> MaxLen]
  /\ ewres = 10 /\ PlainAccumulation

\* order lists with repeated names, every parameter given as a number; any
\* set of categories in the subbasin raster
InitOrders ==
  /\ \E sub, gw, rte \in {<<"flu">>, <<"gwq">>, <<"chw", "flu">>,
                          <<"chd", "gwq", "chd">>} :
       orders = Orders(sub, gw, rte)
  /\ options = Opts(AllRasters, Num2, Num2, Num2, Num2, Num015)
  /\ k = FALSE
  /\ \E ids \in SUBSET IDs : unitIDs = ids
  /\ tableIDs = IDs
  /\ cells = [id \in IDs |-> id]
  /\ rasters = {LaySl, LaySlP}
  /\ sampled = [r \in SampledRasters |-> [id \in IDs |-> 1]]
  /\ perim = [id \in IDs |-> MaxLen]
  /\ ewres = 10 /\ PlainAccumulation

\* explicit values: numbers, nan, layers that exist or not, with any values
InitValues ==
  /\ orders = Orders(<<"gwq">>, <<"flu">>, <<"chw">>)
  /\ \E chw \in {Num015, LaySlP}, gwq \in {Num2, StrNan, LaySl, LayDem} :
       options = Opts(AllRasters, Num2, Num2, chw, Num2, gwq)
  /\ k = FALSE
  /\ \E n \in IDs : unitIDs = 1..n /\ tableIDs = 1..n
  /\ cells = [id \in IDs |-> id]
  /\ \E found \in SUBSET {LaySl, LaySlP, LayDem} : rasters = found
  /\ \E sl, dem \in Values({NaN, 1}) :
       sampled = [r \in SampledRasters |->
                    IF r = meanName(LaySl) THEN sl
                    ELSE IF r = meanName(LayDem) THEN dem
                    ELSE [id \in IDs |-> 1]]
  /\ perim = [id \in IDs |-> MaxLen]
  /\ ewres = 10 /\ PlainAccumulation

\* every way a parameter is resolved or the run refused, with any rows in
\* the table and any categories in the raster
InitLengths ==
  /\ orders = Orders(<<"gwq", "lat">>, <<"chl", "chs">>, <<"chw", "chd">>)
  /\ \E gwq \in {<<>>, Num2, LaySl}, chl, chw \in {<<>>, Num2},
        given \in {AllRasters, AllRasters \ {"accumulation"}} :
       options = Opts(given, chl, <<>>, chw, <<>>, gwq)
  /\ \E keep \in BOOLEAN : k = keep
  /\ \E ids \in SUBSET IDs \ {{}} : unitIDs = ids
  /\ \E ids \in SUBSET IDs \ {{}} : tableIDs = ids
  /\ cells = [id \in IDs |-> id]
  /\ rasters = {LaySl, LaySlP}
  /\ sampled = [r \in SampledRasters |-> [id \in IDs |-> 1]]
  /\ perim = [id \in IDs |-> MaxLen]
  /\ ewres = 10 /\ PlainAccumulation

\* the channel length is computed: any raw lengths, perimeters and resolution
InitChannelLength ==
  /\ orders = Orders(<<"flu">>, <<"flu">>, <<"chl">>)
  /\ options = Opts(AllRasters, <<>>, Num2, Num2, Num2, Num015)
  /\ k = FALSE
  /\ \E n \in IDs : unitIDs = 1..n /\ tableIDs = 1..n
  /\ cells = [id \in IDs |-> id]
  /\ rasters = {LaySl, LaySlP}
  /\ \E raw \in Values({NaN} \cup 0..MaxLen) :
       sampled = [r \in SampledRasters |->
                    IF r = Lit("mainChannelLength") THEN raw
                    ELSE [id \in IDs |-> 1]]
  /\ \E p \in Values(1..MaxLen) : perim = p
  /\ \E r \in 1..MaxRes : ewres = 10 * r
  /\ PlainAccumulation

\* two subbasins with a perimeter of 12.3 km (the model's numbers are
\* hundredths) in a region of 0.09 km: one without a length, one too long
InitExample ==
  /\ orders = Orders(<<"flu">>, <<"flu">>, <<"chl">>)
  /\ options = Opts(AllRasters, <<>>, Num2, Num2, Num2, Num015)
  /\ k = FALSE
  /\ unitIDs = {1, 2} /\ tableIDs = {1, 2}
  /\ cells = [id \in IDs |-> id]
  /\ rasters = {LaySl, LaySlP}
  /\ sampled = [r \in SampledRasters |->
                  IF r = Lit("mainChannelLength")
                  THEN [id \in IDs |-> IF id = 1 THEN NaN ELSE 1300]
                  ELSE [id \in IDs |-> 1]]
  /\ perim = [id \in IDs |-> 1230]
  /\ ewres = 90 /\ PlainAccumulation

\* any categories among 1..MaxUnits in the subbasin raster, with any number
\* of cells each
InitFractions ==
  /\ orders = Orders(<<"flu">>, <<"flu">>, <<"gwq">>)
  /\ options = Opts(AllRasters, Num2, Num2, Num2, Num2, Num015)
  /\ k = FALSE
  /\ \E ids \in SUBSET (1..MaxUnits) : unitIDs = ids
  /\ tableIDs = IDs
  /\ \E n \in [1..MaxUnits -> 1..MaxCells] :
       cells = [id \in 1..MaxUnits |-> 10 * n[id]]
  /\ rasters = {LaySl, LaySlP}
  /\ sampled = [r \in SampledRasters |-> [id \in IDs |-> 1]]
  /\ perim = [id \in IDs |-> MaxLen]
  /\ ewres = 10 /\ PlainAccumulation

\* the channel width and depth are computed: an accumulation raster of 1, 2
\* .. MaxRes km resolution, and in each subbasin no accumulation or one that
\* makes the drainage area a fifth power
InitChannels ==
  /\ orders = Orders(<<"flu">>, <<"flu">>, <<"chw", "chd">>)
  /\ options = Opts(AllRasters, Num2, Num2, <<>>, <<>>, Num015)
  /\ k = FALSE
  /\ unitIDs = IDs /\ tableIDs = IDs
  /\ cells = [id \in IDs |-> id]
  /\ rasters = {LaySl, LaySlP}
  /\ sampled = [r \in SampledRasters |-> [id \in IDs |-> 1]]
  /\ perim = [id \in IDs |-> MaxLen]
  /\ ewres = 10
  /\ \E r \in 1..MaxRes :
       /\ accres = 1000 * r
       /\ \E a \in Values({NaN} \cup 0..MaxRoot) :
            accum = [id \in IDs |->
                       IF a[id] = NaN THEN NaN ELSE (r ^ 3) * (a[id] ^ 5)]

Init ==
  /\ RunInit
  /\ \/ InitOrders
     \/ InitValues
     \/ InitLengths
     \/ InitChannelLength
     \/ InitExample
     \/ InitFractions
     \/ InitChannels

Next ==
  \/ CheckOrders
  \/ Rasterize
  \/ CheckPrerequisites
  \/ AreaFractions
  \/ ResolveNext
  \/ WriteCsv
  \/ Clean

Spec == Init /\ [][Next]_vars

----------------------------------------------------------------------------
(* main.__init__ alone, with any order lists and any options given or not *)

InitConstruct ==
  /\ RunInit
  /\ \E sub, gw, rte \in {<<>>, <<"flu">>, <<"chw", "gwq">>, <<"gwq", "chl">>,
                          <<"lat", "foo">>} :
       orders = Orders(sub, gw, rte)
  /\ \E given \in SUBSET AllRasters :
       \E chl, chs, chw, chd, gwq \in {<<>>, Num2} :
         options = Opts(given, chl, chs, chw, chd, gwq)
  /\ k = FALSE
  /\ PlainWorld(1)

NextConstruct ==
  \/ CheckOrders
  \/ Rasterize
  \/ CheckPrerequisites

SpecConstruct == InitConstruct /\ [][NextConstruct]_vars


----------------------------------------------------------------------------
(* Claims about main.__init__ (checked under SpecConstruct) *)

\* entry i of Entries is neither 'flu', nor given as an option, nor computed
Unresolvable(i) ==
  LET p == Entries[i][2]
  IN p # "flu" /\ ~InOptions(p) /\ p \notin functions

\* entry i of Entries is one the loops of lines 478-493 stop at
Offending(i) ==
  LET p == Entries[i][2]
  IN \/ Unresolvable(i)
     \/ /\ p \in functions /\ ~InOptions(p)
        /\ \E r \in AllRasters : ~InOptions(r)

NoOrderEmpty == \A i \in 1..3 : orders[Groups[i]] # <<>>

Issued(cmds) == \E i \in 1..Len(calls) : calls[i].cmd \in cmds

\* C1 as stated: once validation has run, a configuration with an
\* unresolvable entry has aborted before any GRASS command, with a fatal
\* error that names that entry and its group, for every such entry.
C1_NamesEveryUnresolvable ==
  (pc # "start" /\ \E i \in 1..Len(Entries) : Unresolvable(i))
    => /\ pc = "aborted" /\ calls = <<>>
       /\ \A i \in 1..Len(Entries) :
            Unresolvable(i) => error = NotSure(Entries[i][2], Entries[i][1])

\* C1 amended: once validation has run, a configuration with an unresolvable
\* entry has aborted before any GRASS command and with no mask set; the fatal
\* error names the entry and its group when it is the first entry validation
\* stops at and no order option is empty.
C1_AbortsBeforeGeoOps ==
  (pc # "start" /\ \E i \in 1..Len(Entries) : Unresolvable(i))
    => /\ pc = "aborted" /\ calls = <<>> /\ ~mask
       /\ \A i \in 1..Len(Entries) :
            (/\ NoOrderEmpty
             /\ Unresolvable(i)
             /\ \A j \in 1..(i - 1) : ~Offending(j))
              => error = NotSure(Entries[i][2], Entries[i][1])

\* C1 witness: the run was refused for 'foo', the second entry of gworder,
\* and nothing was issued
C1_Witness ==
  /\ pc = "aborted" /\ calls = <<>>
  /\ orders["groundwater"] = <<"lat", "foo">>
  /\ error = NotSure("foo", "groundwater")

\* C2 as stated: a run that ended with a configuration or missing-prerequisite
\* error has issued neither v.to.rast nor r.mask.
C2_ErrorsBeforeGeoOps ==
  error.kind \in {"NotSure", "ToCalculate", "Missing"}
    => ~Issued({"v.to.rast", "r.mask"})

\* the parameters without explicit value that C3 says need raster r
NeededBy(r) ==
  CASE r = "accumulation" -> {"chw", "chd"}
    [] r = "mainstreams" -> {"chl", "chs"}
    [] r = "drainage" -> {"chl"}
    [] r = "elevation" -> {"chs"}

\* C3 as stated: a run is refused for a missing prerequisite raster only when
\* a raster that is not given is needed by a parameter without explicit
\* value (accumulation by chw, chd; mainstreams by chl, chs; drainage by chl;
\* elevation by chs).
C3_RejectsOnlyNeededRasters ==
  error.kind \in {"ToCalculate", "Missing"}
    => \E r \in AllRasters :
         ~InOptions(r) /\ \E p \in NeededBy(r) : ~InOptions(p)


----------------------------------------------------------------------------
(* Claims about the run (checked under Spec) *)

\* s without the later occurrences of its elements
RECURSIVE Collapsed(_)
Collapsed(s) ==
  IF s = <<>> THEN <<>>
  ELSE LET front == Collapsed(SubSeq(s, 1, Len(s) - 1))
           last == s[Len(s)]
       IN IF \E i \in 1..Len(front) : front[i] = last
          THEN front ELSE Append(front, last)

\* C4 as stated: the header written is the unit-id column, then the columns
\* of subbasin, routing and groundwater in the order of their lists, a name
\* that occurs more than once giving one column, and the data has one column
\* for each header name.
C4_ColumnsCollapsed ==
  output # NoOutput
    => /\ output.header =
            <<"subbasin_id">>
              \o Collapsed(orders["subbasin"] \o orders["routing"]
                             \o orders["groundwater"])
       /\ Len(output.columns) = Len(output.header)
       /\ \A i, j \in 1..Len(output.header) :
            output.header[i] = output.header[j] => i = j

\* C5 as stated: the table written has one row for each category of the
\* subbasin raster, and its leading column is 1..N and holds the categories
\* of the rows.
C5_RowsCarryUnitIDs ==
  output # NoOutput
    => /\ \A c \in 1..Len(output.columns) :
            Len(output.columns[c]) = Cardinality(unitIDs)
       /\ output.columns[1] = [i \in 1..Cardinality(unitIDs) |-> i]
       /\ output.columns[1] = SortedIDs(unitIDs)

\* C6: whenever getParam has returned an array that does not have N entries,
\* the run has aborted with the fatal error that names the parameter, the
\* actual and the expected count, and the parameter is not stored; every
\* array stored in params has N entries.
C6_LengthChecked ==
  /\ \A p \in DOMAIN params : Len(params[p]) = nsubbasins
  /\ (par # NoPar /\ Len(par.value) # nsubbasins)
       => /\ pc = "aborted"
          /\ error = WrongLength(par.name, Len(par.value), nsubbasins)
          /\ par.name \notin DOMAIN params
  /\ (par # NoPar /\ Len(par.value) = nsubbasins)
       => par.name \in DOMAIN params /\ params[par.name] = par.value

\* C6 witness: the average of a layer came back with two rows for a raster
\* of one subbasin and the run was refused
C6_Witness ==
  /\ pc = "aborted"
  /\ par.name = "gwq" /\ options["gwq"] = LaySl
  /\ error = WrongLength("gwq", 2, 1)
  /\ DOMAIN params = {"flu"}

\* the channel length was computed and getParam has returned it
ChlComputed == par.name = "chl" /\ ~InOptions("chl")

\* C7 as stated: a computed channel length, as getParam returns it, is the
\* corrected column, and for every subbasin it is not nan and at most the
\* perimeter of the subbasin.
C7_FiniteWithinPerimeter ==
  ChlComputed
    => /\ par.value = getTable(table, chlColumn)
       /\ \A id \in tableIDs :
            /\ table[chlColumn][id] # NaN
            /\ table[chlColumn][id] <= perim[id]

\* C8: after correctChannelLength the chl column holds the resolution where
\* the raw length was nan, the perimeter where the raw length was above it
\* and the raw length elsewhere, and the array returned is that column by
\* ascending subbasinID.
C8_CorrectedColumn ==
  ChlComputed
    => LET raw == sampled[Lit("mainChannelLength")]
           ids == SortedIDs(tableIDs)
       IN /\ \A id \in tableIDs :
               /\ raw[id] = NaN => table[chlColumn][id] = res
               /\ (raw[id] # NaN /\ raw[id] > perim[id])
                    => table[chlColumn][id] = perim[id]
               /\ (raw[id] # NaN /\ raw[id] <= perim[id])
                    => table[chlColumn][id] = raw[id]
          /\ Len(par.value) = Len(ids)
          /\ \A i \in 1..Len(ids) : par.value[i] = table[chlColumn][ids[i]]

\* C8 witness: perimeters of 12.3 km and a resolution of 0.09 km; the
\* subbasin without a length got 0.09 km, the one of 13 km got 12.3 km
C8_Witness ==
  /\ ChlComputed
  /\ res = 9 /\ perim = <<1230, 1230>>
  /\ sampled[Lit("mainChannelLength")] = <<NaN, 1300>>
  /\ par.value = <<9, 1230>>


\* the index of the first entry of Todo that names p, 0 when none does
FirstIn(p) ==
  IF \E i \in 1..Len(Todo) : Todo[i] = p
  THEN CHOOSE i \in 1..Len(Todo) :
         Todo[i] = p /\ \A j \in 1..(i - 1) : Todo[j] # p
  ELSE 0

\* subbasinStats has gone past the first entry that names p
Passed(p) == FirstIn(p) > 0 /\ pos > FirstIn(p)

\* a GRASS command was issued on the map or column named
Touched(map) == \E i \in 1..Len(calls) : calls[i].map = map

\* C9: a parameter whose explicit value float() turns into a number is
\* resolved to that number N times, whatever the rasters hold; its
\* computation function and the channel-length corrector have issued
\* nothing and no column was added for it.
C9_ExplicitNumberBroadcast ==
  \A p \in OptionKeys :
    (/\ InOptions(p) /\ IsFloat(options[p]) /\ ParseFloat(options[p]) # NaN
     /\ Passed(p))
      => /\ p \in DOMAIN params
         /\ Len(params[p]) = Cardinality(unitIDs)
         /\ \A i \in 1..Len(params[p]) : params[p][i] = ParseFloat(options[p])
         /\ p \in functions
              => /\ ~Touched(Function(p).raster)
                 /\ Function(p).raster \notin DOMAIN table
         /\ p = "chl" => ~Issued({"v.to.db", "v.db.update"})

\* C9 witness: chw = '0.15' with two subbasins gave 0.15 twice (the model's
\* numbers are hundredths)
C9_Witness ==
  /\ options["chw"] = Num015
  /\ Cardinality(unitIDs) = 2
  /\ "chw" \in DOMAIN params /\ params["chw"] = <<15, 15>>

\* subbasinStats is about to call getParam for a parameter whose explicit
\* value float() refuses
AtLayerName ==
  /\ pc = "resolve" /\ ~Cached(Todo[pos])
  /\ InOptions(Todo[pos]) /\ ~IsFloat(options[Todo[pos]])

\* the commands that average a layer over the subbasins and upload the
\* average to the column named by the text before '@'
AverageAndUpload(layer) ==
  <<Call("r.stats.zonal", meanName(layer)),
    Call("v.db.addcolumn", BaseName(layer)),
    Call("v.what.rast", BaseName(layer))>>

\* C10 as stated: an explicit value float() refuses is a layer name; when
\* the layer is not found the step aborts with the 'not found' error, having
\* issued no command and changed no column; when it is found the zonal
\* average is uploaded to the column named by the text before '@' and
\* getParam returns that column.
C10_LayerResolved ==
  [][AtLayerName =>
       LET p == Todo[pos]
           layer == options[p]
       IN IF layer \notin rasters
          THEN /\ pc' = "aborted" /\ error' = NotFound(layer)
               /\ calls' = calls /\ table' = table
          ELSE /\ calls' = calls \o AverageAndUpload(layer)
               /\ BaseName(layer) \in DOMAIN table'
               /\ \A id \in tableIDs :
                    table'[BaseName(layer)][id] = sampled[meanName(layer)][id]
               /\ par' = [name |-> p,
                          value |-> getTable(table', BaseName(layer))]]_vars

\* the part of C10 that holds: as C10_LayerResolved, but the column is
\* returned only when one of its values is not nan (there is otherwise no
\* return: np.min raises ValueError in the statistics report)
C10_LayerResolvedUnlessAllNan ==
  [][AtLayerName =>
       LET p == Todo[pos]
           layer == options[p]
       IN IF layer \notin rasters
          THEN /\ pc' = "aborted" /\ error' = NotFound(layer)
               /\ calls' = calls /\ table' = table
          ELSE /\ calls' = calls \o AverageAndUpload(layer)
               /\ BaseName(layer) \in DOMAIN table'
               /\ \A id \in tableIDs :
                    table'[BaseName(layer)][id] = sampled[meanName(layer)][id]
               /\ IF \E id \in tableIDs : sampled[meanName(layer)][id] # NaN
                  THEN par' = [name |-> p,
                               value |-> getTable(table', BaseName(layer))]
                  ELSE /\ pc' = "aborted"
                       /\ error' = Raised("ValueError", p)
                       /\ par' = par]_vars

----------------------------------------------------------------------------
(* Claims about the cache of subbasinStats *)

\* the positions of invoked that hold a call of the method with the argument
Invocations(method, param) ==
  {i \in 1..Len(invoked) : invoked[i] = Invocation(method, param)}

\* C11: within one run getParam is called at most once for every name,
\* however often the order lists name it, and never for 'flu'; areaFractions
\* is called once, before every call of getParam, and its result is what
\* params holds for 'flu' while the parameters are resolved and afterwards.
C11_ResolvedOnce ==
  /\ \A i, j \in 1..Len(invoked) :
       (invoked[i].method = "getParam" /\ invoked[i] = invoked[j]) => i = j
  /\ Invocations("getParam", "flu") = {}
  /\ Invocations("areaFractions", "") \subseteq {1}
  /\ invoked # <<>> => invoked[1] = Invocation("areaFractions", "")
  /\ pc \in {"resolve", "write", "clean", "done"}
       => /\ Invocations("areaFractions", "") = {1}
          /\ "flu" \in DOMAIN params /\ params["flu"] = areaFractions

\* C11 witness: a finished run whose lists name chd twice in one list, gwq
\* in two lists and flu; getParam was called for chd, gwq and chw, once each
C11_Witness ==
  /\ pc = "done"
  /\ orders = Orders(<<"chd", "gwq", "chd">>, <<"gwq">>, <<"chw", "flu">>)
  /\ invoked = <<Invocation("areaFractions", ""), Invocation("getParam", "chd"),
                 Invocation("getParam", "gwq"), Invocation("getParam", "chw"),
                 Invocation("write_csv_output", "")>>

----------------------------------------------------------------------------
(* Claims about main.areaFractions *)

\* the cells of all the categories of a set
RECURSIVE CellsOf(_)
CellsOf(S) ==
  IF S = {} THEN 0
  ELSE LET id == CHOOSE x \in S : TRUE
       IN cells[id] + CellsOf(S \ {id})

\* the numerators of an array of fractions
Numerators(f) == [i \in 1..Len(f) |-> f[i][1]]

\* the first three categories have 10, 20 and 30 cells
TenTwentyThirty == cells[1] = 10 /\ cells[2] = 20 /\ cells[3] = 30

\* C12: areaFractions returns one fraction for each category of the
\* subbasin raster, by ascending category: the cells of the category over
\* the cells of all categories, so that every fraction is above 0 and at
\* most 1 and the fractions sum to 1; 10, 20 and 30 cells give 1/6, 1/3
\* and 1/2.
C12_AreaFractions ==
  "flu" \in DOMAIN params
    => LET f == params["flu"]
           ids == SortedIDs(unitIDs)
       IN /\ Len(f) = Cardinality(unitIDs)
          /\ \A i \in 1..Len(f) :
               /\ f[i] = <<cells[ids[i]], CellsOf(unitIDs)>>
               /\ 0 < f[i][1] /\ f[i][1] <= f[i][2]
               /\ i > 1 => ids[i - 1] < ids[i]
          /\ \A i \in 1..Len(f) : SeqSum(Numerators(f)) = f[i][2]
          /\ (unitIDs = {1, 2, 3} /\ TenTwentyThirty)
               => /\ 6 * f[1][1] = 1 * f[1][2]
                  /\ 3 * f[2][1] = 1 * f[2][2]
                  /\ 2 * f[3][1] = 1 * f[3][2]

\* C12 witness: three subbasins of 10, 20 and 30 cells got 10/60, 20/60
\* and 30/60
C12_Witness ==
  /\ unitIDs = {1, 2, 3} /\ TenTwentyThirty
  /\ "flu" \in DOMAIN params
  /\ params["flu"] = <<<<10, 60>>, <<20, 60>>, <<30, 60>>>>

----------------------------------------------------------------------------
(* Claims about main.channelWidth and main.channelDepth *)

\* the drainage area of a subbasin in km2, for an accumulation raster whose
\* resolution is a whole number of km
KmArea(id) == accum[id] * (accres \div 1000) ^ 2

\* v is limit or 100 * factor * area^(exponent/5), whichever is smaller,
\* for an area that is a fifth power
IsLimitedPower(v, factor, exponent, limit, area) ==
  \E r \in 0..(MaxRoot * MaxRes) :
    /\ r ^ 5 = area
    /\ v = IF factor * r ^ exponent <= limit
           THEN factor * r ^ exponent ELSE limit

\* C13: for every subbasin the computed channel width is
\* min(1.29 * (max_accum * res^2 / 1e6)^0.6, 3000) and the computed channel
\* depth min(0.13 * (max_accum * res^2 / 1e6)^0.4, 50), max_accum being the
\* largest accumulation within the subbasin (numbers in hundredths); the
\* width is at most 3000, the depth at most 50, and a subbasin with no less
\* accumulation than another has no less width and depth.
C13_WidthAndDepth ==
  \A p \in {"chw", "chd"} :
    (p \in DOMAIN params /\ ~InOptions(p))
      => LET v == params[p]
             ids == SortedIDs(tableIDs)
             Known(i) == accum[ids[i]] # NaN
         IN /\ Len(v) = Len(ids)
            /\ \A i \in 1..Len(v) :
                 /\ ~Known(i) => v[i] = NaN
                 /\ (Known(i) /\ p = "chw")
                      => /\ IsLimitedPower(v[i], 129, 3, 300000, KmArea(ids[i]))
                         /\ v[i] <= 300000
                 /\ (Known(i) /\ p = "chd")
                      => /\ IsLimitedPower(v[i], 13, 2, 5000, KmArea(ids[i]))
                         /\ v[i] <= 5000
            /\ \A i, j \in 1..Len(v) :
                 (Known(i) /\ Known(j) /\ accum[ids[i]] <= accum[ids[j]])
                   => v[i] <= v[j]

\* C13 witness: a raster of 2 km resolution; the subbasin with at most 8
\* cells of accumulation (32 km2) got 10.32 m and 0.52 m, the one with
\* 800000 cells (3200000 km2) got the limits 3000 m and 50 m
C13_Witness ==
  /\ accres = 2000 /\ accum[1] = 8 /\ accum[2] = 800000
  /\ tableIDs = {1, 2}
  /\ "chw" \in DOMAIN params /\ params["chw"] = <<1032, 300000>>
  /\ "chd" \in DOMAIN params /\ params["chd"] = <<52, 5000>>

----------------------------------------------------------------------------
(* Claims about the run as a whole *)

\* the run was refused or raised an exception
Aborted == pc = "aborted"

\* C14: the output is written at most once, and only when every parameter
\* the three order lists name has been resolved (getParam was called for
\* every name but 'flu' before the writing) and has N values; what is written
\* then is the whole table, a column of N values for every entry of the
\* lists.  A run that aborts has written nothing.
C14_WrittenOnceAfterAll ==
  LET written == Invocations("write_csv_output", "")
  IN /\ Cardinality(written) <= 1
     /\ output # NoOutput <=> written # {}
     /\ written # {}
          => /\ ~Aborted /\ error = NoError
             /\ \A i \in 1..Len(Todo) :
                  /\ Todo[i] \in DOMAIN params
                  /\ Len(params[Todo[i]]) = nsubbasins
                  /\ Todo[i] # "flu"
                       => \E c \in Invocations("getParam", Todo[i]) :
                            \A w \in written : c < w
             /\ Len(output.header) = 1 + Len(Todo)
             /\ Len(output.columns) = 1 + Len(Todo)
             /\ \A c \in 1..Len(output.columns) :
                  Len(output.columns[c]) = nsubbasins
     /\ (Aborted \/ error # NoError) => output = NoOutput /\ written = {}

\* C14 witness: a finished run that resolved six parameters, three of them
\* computed, and then wrote the seven columns
C14_Witness ==
  /\ pc = "done"
  /\ output.header = <<"subbasin_id", "gwq", "lat", "chw", "chd", "chl", "chs">>
  /\ ~InOptions("chl") /\ ~InOptions("chw") /\ nsubbasins = 2
  /\ Cardinality(Invocations("write_csv_output", "")) = 1

\* the run ended with a grass.fatal
Fatal ==
  /\ Aborted
  /\ error.kind \in {"ToCalculate", "NotSure", "Missing", "NotFound",
                     "WrongLength"}

\* the run is over: __main__ has finished or grass.fatal has ended the run
RunEnded == pc = "done" \/ Fatal

\* C15 as stated: when a run in which r.mask was set is over, finished or
\* aborted, the mask is removed again, and unless flag k is set the working
\* layers (the names with '__') have been removed as the last thing.
C15_MaskAndLayersScoped ==
  (RunEnded /\ Issued({"r.mask"}))
    => /\ ~mask
       /\ ~k => calls[Len(calls)] = Call("g.remove", Lit("*__*"))

\* the part of C15 that holds: a run that finishes has removed the mask and,
\* unless flag k is set, the working layers
C15_ScopedWhenFinished ==
  pc = "done"
    => /\ ~mask
       /\ Issued({"r.mask"}) /\ Issued({"r.mask -r"})
       /\ ~k => calls[Len(calls)] = Call("g.remove", Lit("*__*"))
       /\ k => ~Issued({"g.remove"})

----------------------------------------------------------------------------
(* Claims about the statistics report of main.getParam *)

\* subbasinStats is about to call getParam, and lines 556-576 will resolve
\* the parameter to an array
AtResolved ==
  /\ pc = "resolve" /\ ~Cached(Todo[pos])
  /\ Resolve(Todo[pos], table).error = NoError

\* the number of nan entries of an array
Nans(stats) == Cardinality({i \in 1..Len(stats) : stats[i] = NaN})

\* C16 as stated: whatever number of entries of a resolved array are nan,
\* none, some or all, getParam reports the number of nan entries and the
\* minimum, mean and maximum of the others, raises nothing and returns the
\* resolved array as it is.
C16_ReportOnly ==
  [][AtResolved =>
       LET p == Todo[pos]
           stats == Resolve(p, table).stats
       IN /\ error'.kind # "ValueError"
          /\ par' = [name |-> p, value |-> stats]
          /\ report'.param = p
          /\ report'.nnans = Nans(stats)
          /\ report'.n = Len(stats) - Nans(stats)
          /\ report'.n > 0
               => /\ report'.min = SeqMin(Finite(stats))
                  /\ report'.max = SeqMax(Finite(stats))
                  /\ report'.sum = SeqSum(Finite(stats))]_vars

\* the part of C16 that holds: as C16_ReportOnly for an array with an entry
\* that is not nan; for an array of nan only np.min raises ValueError, there
\* is no report and nothing is returned
C16_ReportUnlessAllNan ==
  [][AtResolved =>
       LET p == Todo[pos]
           stats == Resolve(p, table).stats
       IN IF Nans(stats) < Len(stats)
          THEN /\ error'.kind # "ValueError"
               /\ par' = [name |-> p, value |-> stats]
               /\ report'.param = p
               /\ report'.nnans = Nans(stats)
               /\ report'.n = Len(stats) - Nans(stats)
               /\ report'.min = SeqMin(Finite(stats))
               /\ report'.max = SeqMax(Finite(stats))
               /\ report'.sum = SeqSum(Finite(stats))
          ELSE /\ pc' = "aborted"
               /\ error' = Raised("ValueError", p)
               /\ par' = par /\ report' = report]_vars

============================================================================
